---- MODULE Spec2Model ----
(***************************************************************************)
(* Outreach Plan Engine of the leads CRM backend.                          *)
(*                                                                         *)
(* The model has three layers:                                             *)
(*   - the pure helpers of index.js (normalizeIntentForStage, the          *)
(*     validation filter and the due-date computation of                   *)
(*     buildAndStoreSteps, the stub sequence of handleStubResponse);       *)
(*   - the single shared sqlite connection of db.js: a FIFO queue of       *)
(*     statements, the rows visible on the connection, the last committed  *)
(*     rows and the open-transaction flag;                                 *)
(*   - the HTTP handlers, one action per event-loop turn: request arrival, *)
(*     the generator's answer, and the completion of the statement at the  *)
(*     head of the queue together with the callback it runs.               *)
(*                                                                         *)
(* Statement semantics: the queue is served in FIFO order, one statement   *)
(* at a time.  A statement that fails leaves the database as it was.       *)
(* BEGIN fails when a transaction is already open, COMMIT and ROLLBACK     *)
(* fail when none is; INSERT, UPDATE, SELECT and COMMIT may also fail for  *)
(* reasons outside the program (a locked or full database file).  A        *)
(* statement run without a callback reports its failure as an 'error'      *)
(* event with no listener, which ends the process.                         *)
(***************************************************************************)
EXTENDS Integers, Sequences, FiniteSets, TLC

\* ------------------------------------------------------------------ bounds
\* Statements that may fail for reasons outside the program, per run.
MaxFaults == 2

\* Overlapping plan requests are followed through one failure more.
MaxFaultsOverlap == MaxFaults + 1

\* Seconds the clock may advance between the inserts a reader lists.
MaxTicks == 1

\* The calendar day, as a day number, on which the requests are served.
AnchorDay == 100

\* ------------------------------------------------------------ value domains
NULL == "null"
\* A missing / undefined / empty JSON value (falsy in JavaScript).
Absent == ""

allowedChannels == {"email", "whatsapp", "sms", "call_script"}

allowedIntents ==
  {"first_contact", "post_call_summary", "proposal_followup", "nurture_checkin",
   "deal_recovery", "meeting_confirmation", "meeting_reminder",
   "invoice_gentle", "invoice_firm", "invoice_final"}

allowedStatuses == {"pending", "done", "skipped"}

defaultHorizon == 14

toLowerCaseIdentity(s) == s

\* String.prototype.toLowerCase on the strings the model uses.
toLowerCase(s) ==
  CASE s = "New" -> "new"
    [] s = "NEW" -> "new"
    [] s = "Qualified" -> "qualified"
    [] s = "Proposal Sent" -> "proposal sent"
    [] s = "Proposal_Sent" -> "proposal_sent"
    [] s = "Won" -> "won"
    [] s = "Lost" -> "lost"
    [] s = "LOST" -> "lost"
    [] s = "Negotiation" -> "negotiation"
    [] s = "First_Contact" -> "first_contact"
    [] s = "FIRST_CONTACT" -> "first_contact"
    [] s = "Deal_Recovery" -> "deal_recovery"
    [] s = "Upsell" -> "upsell"
    [] s = "[object Object]" -> "[object object]"
    [] OTHER -> s

\* ------------------------------------------------------- pure helpers
\* Values reach normalizeIntentForStage as JSON delivers them.  Absent
\* stands for every falsy value (undefined, null, "", 0, false); any other
\* value is written as its String(...) form ("7" for the number 7,
\* "[object Object]" for an object).
normalizeLeaky(stage, originalIntent, hasAnyContact) ==
  IF originalIntent = Absent THEN "nurture_checkin"
  ELSE toLowerCase(originalIntent)

normalizeCaseSensitive(stage, originalIntent, hasAnyContact) ==
  IF originalIntent \in allowedIntents \ {"first_contact"}
    THEN originalIntent
    ELSE "nurture_checkin"

normalizeIgnoringStage(stage, originalIntent, hasAnyContact) ==
  IF originalIntent = Absent THEN "nurture_checkin"
  ELSE IF toLowerCase(originalIntent) \in allowedIntents
    THEN toLowerCase(originalIntent)
    ELSE "nurture_checkin"

normalizeIntentForStage(stage, originalIntent, hasAnyContact) ==
  IF originalIntent = Absent THEN "nurture_checkin"
  ELSE
    LET intent == toLowerCase(originalIntent)
        stageLower == IF stage = Absent THEN "" ELSE toLowerCase(stage)
    IN  IF intent = "first_contact" /\ stageLower = "new" THEN "first_contact"
        ELSE IF intent = "first_contact" /\ stageLower = "qualified"
          THEN "nurture_checkin"
        ELSE IF intent = "first_contact"
                /\ (stageLower = "proposal sent" \/ stageLower = "proposal_sent")
          THEN "proposal_followup"
        ELSE IF intent = "first_contact" /\ stageLower = "won"
          THEN "post_call_summary"
        ELSE IF intent = "first_contact" /\ stageLower = "lost"
          THEN "deal_recovery"
        ELSE IF intent = "first_contact" /\ hasAnyContact THEN "nurture_checkin"
        ELSE IF intent \in allowedIntents THEN intent
        ELSE "nurture_checkin"

\* Number.isInteger(horizonDays) && horizonDays > 0 ? horizonDays : 14.
\* A horizon input is [t |-> "int", v |-> n] or [t |-> "other", v |-> 0]
\* (absent, a string, a fraction).
parsedHorizon(h) ==
  IF h.t = "int" /\ h.v > 0 THEN h.v ELSE defaultHorizon

\* A candidate of the generator's list, as JSON.parse delivers it:
\*   kind  "object" | "null" | "number"   (the element itself)
\*   offT  "num" | "none" | "str"         (typeof offsetDays)
\*   off   the number when offT = "num"
\*   channel, intent, goal   strings, Absent when missing
Cand(kind, offT, off, channel, intent, goal) ==
  [kind |-> kind, offT |-> offT, off |-> off, channel |-> channel,
   intent |-> intent, goal |-> goal]

\* The object spread {...step, intent: normalizedIntent}: spreading a
\* non-object gives an object with no own fields.
normalizeStep(step, stage, hasAnyContact) ==
  IF step.kind = "object"
    THEN [step EXCEPT !.intent =
            normalizeIntentForStage(stage, step.intent, hasAnyContact)]
    ELSE Cand("object", "none", 0, Absent,
              normalizeIntentForStage(stage, Absent, hasAnyContact), Absent)

stepAcceptedStrict(step, horizon) ==
  /\ step.kind = "object"
  /\ step.offT = "num"
  /\ step.off >= 0
  /\ step.off < horizon
  /\ step.channel \in allowedChannels
  /\ step.intent \in allowedIntents

stepAcceptedNoLowerBound(step, horizon) ==
  /\ step.kind = "object"
  /\ step.offT = "num"
  /\ ~(step.off > horizon)
  /\ step.channel \in allowedChannels
  /\ step.intent \in allowedIntents

stepAcceptedAnyChannel(step, horizon) ==
  /\ step.kind = "object"
  /\ step.offT = "num"
  /\ ~(step.off < 0)
  /\ ~(step.off > horizon)
  /\ step.intent \in allowedIntents

\* The filter of buildAndStoreSteps on a normalised step.
stepAccepted(step, horizon) ==
  /\ step.kind = "object"
  /\ step.offT = "num"
  /\ ~(step.off < 0)
  /\ ~(step.off > horizon)
  /\ step.channel \in allowedChannels
  /\ step.intent \in allowedIntents

dueDateKeepsTime(today, off) == [day |-> today.day + off, hh |-> today.hh]

\* due = new Date(today); due.setHours(9,0,0,0); due.setDate(getDate()+off).
\* A date is [day |-> calendar day number, hh |-> hour of day], both in
\* local time.
dueDateOf(today, off) == [day |-> today.day + off, hh |-> 9]

\* The stub sequence of handleStubResponse.
stub ==
  << Cand("object", "num", 0, "email", "first_contact", "intro"),
     Cand("object", "num", 3, "whatsapp", "nurture_checkin", "checkin"),
     Cand("object", "num", 7, "call_script", "post_call_summary", "recap") >>

\* What buildAndStoreSteps computes before it touches the store.
\* modelSteps is [t |-> "list", v |-> <<candidates>>], [t |-> "falsy"] or
\* [t |-> "unparseable"] (parsed?.steps is undefined: (modelSteps || [])
\* is the empty list) or
\* [t |-> "nonlist"] (a truthy value without .map).
\* The result is [threw |-> TRUE] when the map throws a TypeError (a
\* non-list, or a null element whose .intent is read), and otherwise the
\* list of steps to insert, ids not yet assigned.
buildSteps(modelSteps, dealId, stage, hasAnyContact, horizon, today) ==
  IF modelSteps.t = "nonlist" THEN [threw |-> TRUE, steps |-> <<>>]
  ELSE
    LET raw == IF modelSteps.t = "list" THEN modelSteps.v ELSE <<>>
    IN  IF \E i \in 1..Len(raw) : raw[i].kind = "null"
          THEN [threw |-> TRUE, steps |-> <<>>]
          ELSE
            LET normalizedSteps ==
                  [i \in 1..Len(raw) |-> normalizeStep(raw[i], stage, hasAnyContact)]
                Keep(s) == stepAccepted(s, horizon)
                kept == SelectSeq(normalizedSteps, Keep)
            IN  [threw |-> FALSE,
                 steps |->
                   [i \in 1..Len(kept) |->
                     [dealId |-> dealId,
                      dueDate |-> dueDateOf(today, kept[i].off),
                      channel |-> kept[i].channel,
                      intent |-> kept[i].intent,
                      goal |-> IF kept[i].goal = Absent THEN NULL ELSE kept[i].goal,
                      status |-> "pending"]]]


\* ------------------------------------------------------------------ state
PlanReqs == {"p1", "p2"}
UpdReqs == {"u1", "u2"}
ListReqs == {"g1"}
DelReqs == {"x1"}

VARIABLES
  apiKey,     \* process.env.OPENAI_API_KEY is set
  leads,      \* leads table: the ids of its rows
  deals,      \* deals table: dealId -> [leadId, stage]
  activities, \* activities table: the dealIds its rows carry
  rows,       \* outreach_steps as the shared connection sees it
  committed,  \* outreach_steps as of the last commit
  inTx,       \* a transaction is open on the connection
  queue,      \* statements scheduled on the connection, FIFO
  crashed,    \* the process has ended on an unhandled 'error' event
  faults,     \* statements failed so far for outside reasons
  calls,      \* createOutreachSteps calls: <<req, k>> -> its closure state
  plan,       \* POST /ai/outreach-plan requests
  upd,        \* PATCH /outreach-steps/:stepId/status requests
  lst,        \* GET /deals/:dealId/outreach-steps requests
  del,        \* DELETE /leads/:leadId requests
  fn          \* the pure helper applied last, its arguments and its result

vars == <<apiKey, leads, deals, activities, rows, committed, inTx, queue,
          crashed, faults, calls, plan, upd, lst, del, fn>>

NoSteps == {}

idlePlan ==
  [pc |-> "idle", dealId |-> Absent, horizon |-> 0, stage |-> Absent,
   lastAct |-> FALSE, contact |-> FALSE, phase |-> "none", nb |-> 0,
   code |-> 0, steps |-> NoSteps,
   \* history, not program state: what the generator answered, whether a
   \* read-back failed (for which call), whether another plan request was in flight on arrival
   gen |-> [t |-> "none"], rbFailed |-> 0, overlapped |-> FALSE]

idleUpd == [pc |-> "idle", stepId |-> <<>>, status |-> Absent, code |-> 0]

idleLst ==
  [pc |-> "idle", dealId |-> Absent, code |-> 0, steps |-> NoSteps, list |-> <<>>]

idleDel == [pc |-> "idle", leadId |-> Absent, dealIds |-> {}, code |-> 0]

noFn == [op |-> "none"]

\* The rows of one deal, as SELECT * ... WHERE dealId = ? returns them.
stepsForDeal(table, dealId) == {s \in table : s.dealId = dealId}

\* ---------------------------------------------------- createOutreachSteps
\* status === 'pending' ? null : new Date().toISOString()
completedAtAlways(status) == "ts"

completedAtFor(status) == IF status = "pending" THEN NULL ELSE "ts"

\* The row one INSERT of createOutreachSteps writes for a step.
insertedRow(step, id) ==
  LET statusValue == IF step.status = Absent THEN "pending" ELSE step.status
  IN  [id |-> id, dealId |-> step.dealId, dueDate |-> step.dueDate,
       channel |-> step.channel, intent |-> step.intent, goal |-> step.goal,
       status |-> statusValue,
       completedAt |-> completedAtFor(statusValue),
       createdAt |-> 0]

\* The statements createOutreachSteps schedules synchronously for call b:
\* BEGIN and one INSERT per step (hasErrored cannot change inside forEach).
\* Step i of call <<r, k>> gets the fresh id <<r, k, i>> (uuidv4).
batchStatements(b, steps) ==
  <<[op |-> "begin", b |-> b]>> \o
  [i \in 1..Len(steps) |->
     [op |-> "insert", b |-> b, row |-> insertedRow(steps[i], <<b[1], b[2], i>>)]]

newCall(n) == [size |-> n, remaining |-> n, hasErrored |-> FALSE, cbs |-> 0,
               outcome |-> "open"]

\* ------------------------------------------------- the plan request's flow
respond(p, code, steps) ==
  [p EXCEPT !.pc = "done", !.code = code, !.steps = steps]

onRejectSurface(r, p, q, c, ph, today) ==
  [plan |-> respond(p, 500, NoSteps), queue |-> q, calls |-> c]

RECURSIVE runBuild(_, _, _, _, _, _, _), onNull(_, _, _, _, _, _), onReject(_, _, _, _, _, _)

\* buildAndStoreSteps(modelSteps) called in phase ph by request r whose
\* record is p, with q the queue and c the calls as they are now.
\* Phases: "stub" (no API key), "gen" (the generator's candidates),
\* "tryFallback" (handleStubResponse inside the try block) and
\* "catchFallback" (handleStubResponse inside the catch block).
runBuild(r, p, q, c, ph, modelSteps, today) ==
  LET built == buildSteps(modelSteps, p.dealId, p.stage, p.contact, p.horizon, today)
      k == p.nb + 1
  IN  IF built.threw THEN onReject(r, p, q, c, ph, today)
      ELSE IF Len(built.steps) = 0 THEN onNull(r, p, q, c, ph, today)
      ELSE [plan |-> [p EXCEPT !.pc = "batch", !.phase = ph, !.nb = k],
            queue |-> q \o batchStatements(<<r, k>>, built.steps),
            calls |-> c @@ (<<r, k>> :> newCall(Len(built.steps)))]

\* buildAndStoreSteps resolved with null: nothing to insert.
onNull(r, p, q, c, ph, today) ==
  IF ph = "gen"
    THEN runBuild(r, p, q, c, "tryFallback", [t |-> "list", v |-> stub], today)
    ELSE [plan |-> respond(p, 200, NoSteps), queue |-> q, calls |-> c]

\* buildAndStoreSteps rejected (or the generator threw) in phase ph.
onReject(r, p, q, c, ph, today) ==
  IF ph \in {"gen", "tryFallback"}
    THEN runBuild(r, p, q, c, "catchFallback", [t |-> "list", v |-> stub], today)
    ELSE [plan |-> respond(p, 500, NoSteps), queue |-> q, calls |-> c]


\* ------------------------------------------------------------------ inputs
\* new Date() at the time buildAndStoreSteps runs: before and after 09:00
\* of calendar day AnchorDay.
Anchors == {[day |-> AnchorDay, hh |-> 8], [day |-> AnchorDay, hh |-> 17]}

UnknownId == <<"none", 0, 0>>

\* ------------------------------------------------------------------- Init
InitLeads == {"l1", "l2"}

InitDeals ==
  "d1" :> [leadId |-> "l1", stage |-> "New"] @@
  "d2" :> [leadId |-> "l2", stage |-> "Lost"]

InitActivities == {"d2"}

Init ==
  /\ apiKey \in BOOLEAN
  /\ leads = InitLeads
  /\ deals = InitDeals
  /\ activities = InitActivities
  /\ rows = {}
  /\ committed = {}
  /\ inTx = FALSE
  /\ queue = <<>>
  /\ crashed = FALSE
  /\ faults = 0
  /\ calls = <<>>
  /\ plan = [r \in PlanReqs |-> idlePlan]
  /\ upd = [u \in UpdReqs |-> idleUpd]
  /\ lst = [g \in ListReqs |-> idleLst]
  /\ del = [x \in DelReqs |-> idleDel]
  /\ fn = noFn

\* --------------------------------------------------------- the connection
HeadIs(op) == ~crashed /\ queue # <<>> /\ Head(queue).op = op

\* A statement may fail for a reason outside the program.
CanFault == faults < MaxFaultsOverlap

\* The table after a write: outside a transaction every statement commits.
afterWrite(newRows) == IF inTx THEN committed ELSE newRows

\* The continuation of request r after its awaited promise settled.
Continue(r, res) ==
  /\ plan' = [plan EXCEPT ![r] = res.plan]
  /\ queue' = res.queue
  /\ calls' = res.calls

\* ------------------------------------------------ POST /ai/outreach-plan
\* The handler up to getDealContextForMessageDraft.
PlanArrive(r, dealId, h) ==
  /\ ~crashed
  /\ plan[r].pc = "idle"
  /\ IF dealId = Absent
       THEN /\ plan' = [plan EXCEPT ![r] = respond(@, 400, NoSteps)]
            /\ UNCHANGED queue
       ELSE /\ plan' = [plan EXCEPT ![r] =
                  [@ EXCEPT !.pc = "ctx", !.dealId = dealId,
                            !.horizon = parsedHorizon(h),
                            !.overlapped =
                               \E o \in PlanReqs \ {r} :
                                 plan[o].pc \notin {"idle", "done"}]]
            /\ queue' = Append(queue, [op |-> "ctx", r |-> r])
  /\ UNCHANGED <<apiKey, deals, rows, committed, inTx, crashed, faults, calls,
                 upd, lst>>

\* getDealContextForMessageDraft: the deal row is read.
ExecCtx(fail) ==
  /\ HeadIs("ctx")
  /\ LET r == Head(queue).r
         p == plan[r]
     IN  IF fail
           THEN /\ CanFault
                /\ faults' = faults + 1
                /\ plan' = [plan EXCEPT ![r] = respond(p, 500, NoSteps)]
                /\ queue' = Tail(queue)
           ELSE /\ UNCHANGED faults
                /\ IF p.dealId \notin DOMAIN deals
                     THEN /\ plan' = [plan EXCEPT ![r] = respond(p, 404, NoSteps)]
                          /\ queue' = Tail(queue)
                     ELSE /\ plan' = [plan EXCEPT ![r] =
                                [p EXCEPT !.pc = "lastact",
                                          !.stage = deals[p.dealId].stage]]
                          /\ queue' = Append(Tail(queue), [op |-> "lastact", r |-> r])
  /\ UNCHANGED <<apiKey, deals, rows, committed, inTx, crashed, calls, upd, lst>>

\* getDealContextForMessageDraft: the last activity is read; an error is
\* logged and the context goes on without it.  The handler then calls
\* getRecentActivitiesForDeal.
ExecLastAct(fail) ==
  /\ HeadIs("lastact")
  /\ LET r == Head(queue).r
         p == plan[r]
     IN  /\ IF fail THEN CanFault /\ faults' = faults + 1 ELSE UNCHANGED faults
         /\ plan' = [plan EXCEPT ![r] =
               [p EXCEPT !.pc = "recent",
                         !.lastAct = ~fail /\ p.dealId \in activities]]
         /\ queue' = Append(Tail(queue), [op |-> "recent", r |-> r])
  /\ UNCHANGED <<apiKey, deals, rows, committed, inTx, crashed, calls, upd, lst>>

\* getRecentActivitiesForDeal answers; without an API key the handler runs
\* handleStubResponse, with one it awaits the generator.
ExecRecent(fail, today) ==
  /\ HeadIs("recent")
  /\ LET r == Head(queue).r
         recent == ~fail /\ plan[r].dealId \in activities
         p == [plan[r] EXCEPT !.contact = plan[r].lastAct \/ recent]
     IN  /\ IF fail THEN CanFault /\ faults' = faults + 1 ELSE UNCHANGED faults
         /\ IF apiKey
              THEN /\ plan' = [plan EXCEPT ![r] = [p EXCEPT !.pc = "gen"]]
                   /\ queue' = Tail(queue)
                   /\ UNCHANGED calls
              ELSE Continue(r, runBuild(r, p, Tail(queue), calls, "stub",
                                        [t |-> "list", v |-> stub], today))
  /\ UNCHANGED <<apiKey, deals, rows, committed, inTx, crashed, upd, lst>>

\* openai.chat.completions.create settles.  out is [t |-> "throw"] (the
\* call rejects), or what parsed?.steps is after JSON.parse.
GenRespond(r, out, today) ==
  /\ ~crashed
  /\ plan[r].pc = "gen"
  /\ LET p == [plan[r] EXCEPT !.gen = out]
     IN  IF out.t = "throw"
           THEN Continue(r, onReject(r, p, queue, calls, "gen", today))
           ELSE Continue(r, runBuild(r, p, queue, calls, "gen", out, today))
  /\ UNCHANGED <<apiKey, deals, rows, committed, inTx, crashed, faults, upd, lst>>


\* ---------------------------------------- createOutreachSteps statements
\* db.run('BEGIN TRANSACTION') has no callback: when it fails (a
\* transaction is already open on the connection) the statement emits an
\* 'error' event nobody listens to and the process ends; the open
\* transaction is lost with it.
ExecBegin ==
  /\ HeadIs("begin")
  /\ IF inTx
       THEN /\ crashed' = TRUE
            /\ queue' = <<>>
            /\ rows' = committed
            /\ inTx' = FALSE
       ELSE /\ inTx' = TRUE
            /\ queue' = Tail(queue)
            /\ UNCHANGED <<rows, crashed>>
  /\ UNCHANGED <<apiKey, deals, committed, faults, calls, plan, upd, lst>>

\* createdAt DEFAULT (datetime('now')): the second in which the INSERT
\* runs, counted from the first insert; the clock does not run backwards.
lastCreated(table) ==
  LET seen == {s.createdAt : s \in table} \cup {0}
  IN  CHOOSE n \in seen : \A m \in seen : m <= n

\* One INSERT of a batch and its callback; tick is the time elapsed since
\* the latest insert.
ExecInsert(fail, tick) ==
  /\ HeadIs("insert")
  /\ LET b == Head(queue).b
         c == calls[b]
     IN  IF fail
           THEN /\ CanFault
                /\ faults' = faults + 1
                /\ calls' = [calls EXCEPT ![b].hasErrored = TRUE]
                /\ queue' = Append(Tail(queue), [op |-> "rollback", b |-> b])
                /\ UNCHANGED <<rows, committed>>
           ELSE /\ UNCHANGED faults
                /\ rows' = rows \cup
                     {[Head(queue).row EXCEPT
                         !.createdAt = lastCreated(rows) + tick]}
                /\ committed' = afterWrite(rows')
                /\ calls' = [calls EXCEPT ![b].remaining = c.remaining - 1]
                /\ queue' = IF c.remaining - 1 = 0 /\ ~c.hasErrored
                              THEN Append(Tail(queue), [op |-> "commit", b |-> b])
                              ELSE Tail(queue)
  /\ UNCHANGED <<apiKey, deals, inTx, crashed, plan, upd, lst>>

\* The completion callback of call b is invoked with result res ("ok" or
\* "err"): calls as they are after it.
called(b, res) ==
  [calls EXCEPT ![b].cbs = @ + 1,
                ![b].outcome = IF @ = "open" THEN res ELSE @]

\* The promise buildAndStoreSteps returned for call b is still pending.
Awaited(b) ==
  /\ calls[b].cbs = 0
  /\ plan[b[1]].pc = "batch"
  /\ plan[b[1]].nb = b[2]

\* The rows the connection sees after a ROLLBACK / keeps after a COMMIT.
rolledBack == committed

commitLost == committed

afterCommit == rows

\* ROLLBACK and its callback () => callback(err): the result of the
\* ROLLBACK itself is not looked at.
ExecRollback(today) ==
  /\ HeadIs("rollback")
  /\ LET b == Head(queue).b
         r == b[1]
     IN  /\ IF inTx
              THEN rows' = rolledBack /\ inTx' = FALSE
              ELSE UNCHANGED <<rows, inTx>>
         /\ IF Awaited(b)
              THEN Continue(r, onReject(r, plan[r], Tail(queue), called(b, "err"),
                                        plan[r].phase, today))
              ELSE /\ calls' = called(b, "err")
                   /\ queue' = Tail(queue)
                   /\ UNCHANGED plan
  /\ UNCHANGED <<apiKey, deals, committed, crashed, faults, upd, lst>>

\* COMMIT and its callback.  On success the promise wrapper of
\* buildAndStoreSteps reads the deal's steps back.
ExecCommit(fail, today) ==
  /\ HeadIs("commit")
  /\ LET b == Head(queue).b
         r == b[1]
     IN  IF fail \/ ~inTx
           THEN /\ fail => (CanFault /\ inTx)
                /\ faults' = IF fail THEN faults + 1 ELSE faults
                /\ UNCHANGED <<rows, committed, inTx>>
                /\ IF Awaited(b)
                     THEN Continue(r, onReject(r, plan[r], Tail(queue),
                                               called(b, "err"), plan[r].phase, today))
                     ELSE /\ calls' = called(b, "err")
                          /\ queue' = Tail(queue)
                          /\ UNCHANGED plan
           ELSE /\ committed' = afterCommit
                /\ inTx' = FALSE
                /\ UNCHANGED <<rows, faults>>
                /\ calls' = called(b, "ok")
                /\ queue' = Append(Tail(queue), [op |-> "readback", b |-> b])
                /\ plan' = IF Awaited(b)
                             THEN [plan EXCEPT ![r].pc = "readback"]
                             ELSE plan
  /\ UNCHANGED <<apiKey, deals, crashed, upd, lst>>

\* getOutreachStepsForDeal called by buildAndStoreSteps after the write.
ExecReadback(fail, today) ==
  /\ HeadIs("readback")
  /\ LET b == Head(queue).b
         r == b[1]
         p == plan[r]
         pending == p.pc = "readback" /\ p.nb = b[2]
     IN  /\ IF fail THEN CanFault /\ faults' = faults + 1 ELSE UNCHANGED faults
         /\ IF ~pending
              THEN queue' = Tail(queue) /\ UNCHANGED <<plan, calls>>
              ELSE IF fail
                THEN Continue(r, onReject(r, [p EXCEPT !.rbFailed = p.nb],
                                          Tail(queue), calls, p.phase, today))
                ELSE /\ plan' = [plan EXCEPT ![r] =
                           respond(p, 200, stepsForDeal(rows, p.dealId))]
                     /\ queue' = Tail(queue)
                     /\ UNCHANGED calls
  /\ UNCHANGED <<apiKey, deals, rows, committed, inTx, crashed, upd, lst>>

\* ------------------------------------ PATCH /outreach-steps/:stepId/status
UpdArrive(u, stepId, status) ==
  /\ ~crashed
  /\ upd[u].pc = "idle"
  /\ IF status \notin allowedStatuses
       THEN /\ upd' = [upd EXCEPT ![u] =
                  [@ EXCEPT !.pc = "done", !.stepId = stepId, !.status = status,
                            !.code = 400]]
            /\ UNCHANGED queue
       ELSE /\ upd' = [upd EXCEPT ![u] =
                  [@ EXCEPT !.pc = "wait", !.stepId = stepId, !.status = status]]
            /\ queue' = Append(queue,
                  [op |-> "update", u |-> u, stepId |-> stepId, status |-> status,
                   completedAt |-> completedAtFor(status)])
  /\ UNCHANGED <<apiKey, deals, rows, committed, inTx, crashed, faults, calls,
                 plan, lst>>

updatedRowsNoWhere(table, stepId, status, completedAt) ==
  {[s EXCEPT !.status = status, !.completedAt = completedAt] : s \in table}

updatedRowsTouching(table, stepId, status, completedAt) ==
  {IF s.id = stepId
     THEN [s EXCEPT !.status = status, !.completedAt = completedAt,
                    !.createdAt = @ + 1]
     ELSE s : s \in table}

\* The UPDATE of updateOutreachStepStatus and its callback.
updatedRows(table, stepId, status, completedAt) ==
  {IF s.id = stepId
     THEN [s EXCEPT !.status = status, !.completedAt = completedAt]
     ELSE s : s \in table}

\* this.changes === 0 is the not-found outcome, mapped to 404 by the route.
updateCodeAlwaysOk(changes) == 200

updateCode(changes) == IF changes = 0 THEN 404 ELSE 200

ExecUpdate(fail) ==
  /\ HeadIs("update")
  /\ LET st == Head(queue)
         u == st.u
         changes == Cardinality({s \in rows : s.id = st.stepId})
     IN  IF fail
           THEN /\ CanFault
                /\ faults' = faults + 1
                /\ upd' = [upd EXCEPT ![u] = [@ EXCEPT !.pc = "done", !.code = 500]]
                /\ UNCHANGED <<rows, committed>>
           ELSE /\ UNCHANGED faults
                /\ rows' = updatedRows(rows, st.stepId, st.status, st.completedAt)
                /\ committed' = afterWrite(rows')
                /\ upd' = [upd EXCEPT ![u] =
                      [@ EXCEPT !.pc = "done",
                                !.code = updateCode(changes)]]
  /\ queue' = Tail(queue)
  /\ UNCHANGED <<apiKey, deals, inTx, crashed, calls, plan, lst>>

\* ------------------------------------- GET /deals/:dealId/outreach-steps
ListArrive(g, dealId) ==
  /\ ~crashed
  /\ lst[g].pc = "idle"
  /\ lst' = [lst EXCEPT ![g] = [@ EXCEPT !.pc = "wait", !.dealId = dealId]]
  /\ queue' = Append(queue, [op |-> "list", g |-> g])
  /\ UNCHANGED <<apiKey, deals, rows, committed, inTx, crashed, faults, calls,
                 plan, upd>>

orderKeyCreatedFirst(s) == <<s.createdAt, s.dueDate.day, s.dueDate.hh>>

\* ORDER BY datetime(dueDate) ASC, datetime(createdAt) ASC.
orderKey(s) == <<s.dueDate.day, s.dueDate.hh, s.createdAt>>

\* a sorts before b or ties with it.
keyLeq(a, b) ==
  \/ a[1] < b[1]
  \/ a[1] = b[1] /\ a[2] < b[2]
  \/ a[1] = b[1] /\ a[2] = b[2] /\ a[3] <= b[3]

RECURSIVE orderedBy(_)

\* The orders in which the SELECT may return the rows of S: sorted by
\* orderKey, rows with equal keys in any order.
orderedBy(S) ==
  IF S = {} THEN {<<>>}
  ELSE LET firsts == {s \in S : \A t \in S : keyLeq(orderKey(s), orderKey(t))}
       IN  UNION {{<<m>> \o rest : rest \in orderedBy(S \ {m})} : m \in firsts}

ExecList(fail, ord) ==
  /\ HeadIs("list")
  /\ LET g == Head(queue).g
     IN  IF fail
           THEN /\ CanFault
                /\ ord = <<>>
                /\ faults' = faults + 1
                /\ lst' = [lst EXCEPT ![g] = [@ EXCEPT !.pc = "done", !.code = 500]]
           ELSE /\ UNCHANGED faults
                /\ ord \in orderedBy(stepsForDeal(rows, lst[g].dealId))
                /\ lst' = [lst EXCEPT ![g] =
                      [@ EXCEPT !.pc = "done", !.code = 200,
                                !.steps = stepsForDeal(rows, lst[g].dealId),
                                !.list = ord]]
  /\ queue' = Tail(queue)
  /\ UNCHANGED <<apiKey, deals, rows, committed, inTx, crashed, calls, plan, upd>>

\* ---------------------------------------------------- DELETE /leads/:leadId
\* The handler calls deleteLeadAndRelated, which first reads the lead's deals.
DelArrive(x, leadId) ==
  /\ ~crashed
  /\ del[x].pc = "idle"
  /\ del' = [del EXCEPT ![x] = [@ EXCEPT !.pc = "select", !.leadId = leadId]]
  /\ queue' = Append(queue, [op |-> "selDeals", x |-> x])
  /\ UNCHANGED <<apiKey, leads, deals, activities, rows, committed, inTx,
                 crashed, faults, calls, plan, upd, lst, fn>>

\* SELECT id FROM deals WHERE leadId = ?
dealsOfLead(table, leadId) == {d \in DOMAIN table : table[d].leadId = leadId}

\* The deals SELECT answers; inside db.serialize the activities DELETE (only
\* when the lead has deals) and the deals DELETE are scheduled.
ExecSelDeals(fail) ==
  /\ HeadIs("selDeals")
  /\ LET x == Head(queue).x
         dealIds == dealsOfLead(deals, del[x].leadId)
     IN  IF fail
           THEN /\ CanFault
                /\ faults' = faults + 1
                /\ del' = [del EXCEPT ![x] = [@ EXCEPT !.pc = "done", !.code = 500]]
                /\ queue' = Tail(queue)
           ELSE /\ UNCHANGED faults
                /\ del' = [del EXCEPT ![x] =
                      [@ EXCEPT !.pc = "deleting", !.dealIds = dealIds]]
                /\ queue' = Tail(queue)
                      \o (IF dealIds # {} THEN <<[op |-> "delActs", x |-> x]>>
                                          ELSE <<>>)
                      \o <<[op |-> "delDeals", x |-> x]>>
  /\ UNCHANGED <<apiKey, leads, deals, activities, rows, committed, inTx,
                 crashed, calls, plan, upd, lst, fn>>

\* DELETE FROM activities WHERE dealId IN (...): an error is only logged.
ExecDelActs(fail) ==
  /\ HeadIs("delActs")
  /\ LET x == Head(queue).x
     IN  IF fail
           THEN /\ CanFault
                /\ faults' = faults + 1
                /\ UNCHANGED activities
           ELSE /\ UNCHANGED faults
                /\ activities' = activities \ del[x].dealIds
  /\ queue' = Tail(queue)
  /\ UNCHANGED <<apiKey, leads, deals, rows, committed, inTx, crashed, calls,
                 plan, upd, lst, del, fn>>

\* DELETE FROM deals WHERE leadId = ?: the connection never turns foreign
\* key enforcement on, so no row of outreach_steps goes with a deal.
dealsAfterDelete(table, leadId) ==
  [d \in DOMAIN table \ dealsOfLead(table, leadId) |-> table[d]]

ExecDelDeals(fail) ==
  /\ HeadIs("delDeals")
  /\ LET x == Head(queue).x
     IN  IF fail
           THEN /\ CanFault
                /\ faults' = faults + 1
                /\ del' = [del EXCEPT ![x] = [@ EXCEPT !.pc = "done", !.code = 500]]
                /\ queue' = Tail(queue)
                /\ UNCHANGED deals
           ELSE /\ UNCHANGED faults
                /\ deals' = dealsAfterDelete(deals, del[x].leadId)
                /\ del' = [del EXCEPT ![x] = [@ EXCEPT !.pc = "lead"]]
                /\ queue' = Append(Tail(queue), [op |-> "delLead", x |-> x])
  /\ UNCHANGED <<apiKey, leads, activities, rows, committed, inTx, crashed,
                 calls, plan, upd, lst, fn>>

\* DELETE FROM leads WHERE id = ?, and the handler's answer.
deleteCode(changes) == IF changes = 0 THEN 404 ELSE 200

ExecDelLead(fail) ==
  /\ HeadIs("delLead")
  /\ LET x == Head(queue).x
         changes == IF del[x].leadId \in leads THEN 1 ELSE 0
     IN  IF fail
           THEN /\ CanFault
                /\ faults' = faults + 1
                /\ del' = [del EXCEPT ![x] = [@ EXCEPT !.pc = "done", !.code = 500]]
                /\ UNCHANGED leads
           ELSE /\ UNCHANGED faults
                /\ leads' = leads \ {del[x].leadId}
                /\ del' = [del EXCEPT ![x] =
                      [@ EXCEPT !.pc = "done", !.code = deleteCode(changes)]]
  /\ queue' = Tail(queue)
  /\ UNCHANGED <<apiKey, deals, activities, rows, committed, inTx, crashed,
                 calls, plan, upd, lst, fn>>

\* ------------------------------------------------------------ request inputs
DealIdInputs == {"d1", "d2", "dX", Absent}

HorizonInputs == {[t |-> "other", v |-> 0], [t |-> "int", v |-> 0],
                  [t |-> "int", v |-> 5], [t |-> "int", v |-> 7]}

cIntro == Cand("object", "num", 0, "email", "First_Contact", "intro")
cLate == Cand("object", "num", 5, "sms", "Upsell", Absent)
cNegative == Cand("object", "num", -1, "email", "nurture_checkin", "early")
cFax == Cand("object", "num", 1, "fax", "nurture_checkin", "fax")
cNullElem == Cand("null", "none", 0, Absent, Absent, Absent)

GenOutputs ==
  {[t |-> "throw"], [t |-> "unparseable"], [t |-> "nonlist"],
   [t |-> "list", v |-> <<cIntro, cNegative>>],
   [t |-> "list", v |-> <<cIntro, cLate>>],
   [t |-> "list", v |-> <<cNegative, cFax>>],
   [t |-> "list", v |-> <<cIntro, cNullElem>>]}

StatusInputs == {"pending", "done", "skipped", "archived"}

\* The step ids a client can name: those it can have seen, and one that
\* was never issued.
StepIdInputs == {s.id : s \in rows} \cup {UnknownId}

\* -------------------------------------------------------------------- Next
\* Requests are numbered in arrival order; with overlap = FALSE a plan
\* request arrives only when no other plan request is in flight.
ArrivalOrder(r, overlap) ==
  /\ r = "p2" => plan["p1"].pc # "idle"
  /\ overlap \/ \A o \in PlanReqs \ {r} : plan[o].pc \in {"idle", "done"}

\* Whether the next statement may fail, within a budget of F failures.
Fails(F) == IF faults < F THEN BOOLEAN ELSE {FALSE}

\* The steps of plan requests: arrivals with the given inputs, the
\* generator's answers, and the statements the requests schedule.
\* Whether the clock may advance before the next insert, up to T seconds.
Ticks(T) == IF lastCreated(rows) < T THEN {0, 1} ELSE {0}

\* The orders a listing may come back in.
Orders ==
  IF HeadIs("list")
    THEN orderedBy(stepsForDeal(rows, lst[Head(queue).g].dealId))
    ELSE {<<>>}

PlanNext(PR, DI, HI, GO, overlap, F, T) ==
  \/ \E r \in PR, d \in DI, h \in HI :
       ArrivalOrder(r, overlap) /\ PlanArrive(r, d, h)
  \/ \E fail \in Fails(F) : ExecCtx(fail)
  \/ \E fail \in Fails(F) : ExecLastAct(fail)
  \/ \E fail \in Fails(F), today \in Anchors : ExecRecent(fail, today)
  \/ \E r \in PlanReqs, out \in GO, today \in Anchors : GenRespond(r, out, today)
  \/ ExecBegin
  \/ \E fail \in Fails(F), tick \in Ticks(T) : ExecInsert(fail, tick)
  \/ \E today \in Anchors : ExecRollback(today)
  \/ \E fail \in Fails(F), today \in Anchors : ExecCommit(fail, today)
  \/ \E fail \in Fails(F), today \in Anchors : ExecReadback(fail, today)

UpdNext(SI, F) ==
  \/ \E u \in UpdReqs, id \in StepIdInputs, st \in SI :
       /\ u = "u2" => upd["u1"].pc # "idle"
       /\ UpdArrive(u, id, st)
  \/ \E fail \in Fails(F) : ExecUpdate(fail)

LstNext(DI, F) ==
  \/ \E g \in ListReqs, d \in DI : ListArrive(g, d)
  \/ \E fail \in Fails(F), ord \in Orders : ExecList(fail, ord)

LeadIdInputs == {"l1", "l2", "lX"}

DelNext(LI, F) ==
  \/ \E x \in DelReqs, l \in LI : DelArrive(x, l)
  \/ \E fail \in Fails(F) : ExecSelDeals(fail)
  \/ \E fail \in Fails(F) : ExecDelActs(fail)
  \/ \E fail \in Fails(F) : ExecDelDeals(fail)
  \/ \E fail \in Fails(F) : ExecDelLead(fail)

\* Plan requests one at a time (the single logical writer the design
\* assumes), with every input.
Next ==
  /\ PlanNext(PlanReqs, DealIdInputs, HorizonInputs, GenOutputs, FALSE, MaxFaults,
              0)
  /\ UNCHANGED <<fn, leads, activities, del>>

Spec == Init /\ [][Next]_vars

\* Two plan requests that may overlap on the shared connection.
OverlapInputs ==
  {[t |-> "throw"], [t |-> "list", v |-> <<cIntro, cNegative>>],
   [t |-> "list", v |-> <<cIntro, cLate>>]}

NextOverlap ==
  /\ PlanNext(PlanReqs, {"d1", "d2"}, {[t |-> "other", v |-> 0]}, OverlapInputs,
              TRUE, MaxFaultsOverlap, 0)
  /\ UNCHANGED <<fn, leads, activities, del>>

SpecOverlap == Init /\ [][NextOverlap]_vars

\* One plan request and two status updates.
NextStatus ==
  /\ \/ PlanNext({"p1"}, {"d1"}, {[t |-> "other", v |-> 0]},
                 {[t |-> "throw"], [t |-> "list", v |-> <<cIntro, cNegative>>]},
                 TRUE, MaxFaults, 0)
     \/ UpdNext(StatusInputs, MaxFaults)
  /\ UNCHANGED <<fn, leads, activities, del>>

SpecStatus == Init /\ [][NextStatus]_vars

\* Overlapping plan requests and a reader.
NextList ==
  /\ \/ PlanNext(PlanReqs, {"d1"}, {[t |-> "other", v |-> 0]},
                 {[t |-> "throw"], [t |-> "list", v |-> <<cIntro, cNegative>>]},
                 TRUE, MaxFaults, 0)
     \/ LstNext({"d1", "d2"}, MaxFaults)
  /\ UNCHANGED <<fn, leads, activities, del>>

SpecList == Init /\ [][NextList]_vars

\* Plan requests for two deals, with the clock advancing between their
\* inserts, and a reader of the first deal; no statement fails.
NextOrder ==
  /\ \/ PlanNext(PlanReqs, {"d1", "d2"}, {[t |-> "other", v |-> 0]},
                 {[t |-> "throw"], [t |-> "list", v |-> <<cIntro, cNegative>>]},
                 TRUE, 0, MaxTicks)
     \/ LstNext({"d1"}, 0)
  /\ UNCHANGED <<fn, leads, activities, del>>

SpecOrder == Init /\ [][NextOrder]_vars

\* One plan request whose deal lookup, generator and statements all answer
\* in the end: every step but the arrival is weakly fair.
LiveInputs == {[t |-> "throw"], [t |-> "list", v |-> <<cIntro, cNegative>>]}

NextLive ==
  /\ PlanNext({"p1"}, {"d1", "dX"}, {[t |-> "other", v |-> 0]}, LiveInputs,
              FALSE, MaxFaults, 0)
  /\ UNCHANGED <<fn, leads, activities, del>>

Answering ==
  /\ PlanNext({}, {}, {}, LiveInputs, FALSE, MaxFaults, 0)
  /\ UNCHANGED <<fn, leads, activities, del>>

SpecLive == Init /\ [][NextLive]_vars /\ WF_vars(Answering)

\* One plan request whose generator offers steps on an unknown channel,
\* with unknown intents and outside the horizon, and status updates with
\* every status value.
StoredOutputs ==
  {[t |-> "nonlist"], [t |-> "list", v |-> <<cLate, cFax>>],
   [t |-> "list", v |-> <<cNegative, cFax>>]}

NextStored ==
  /\ \/ PlanNext({"p1"}, {"d1"}, {[t |-> "other", v |-> 0]}, StoredOutputs,
                 FALSE, MaxFaults, 0)
     \/ UpdNext(StatusInputs, MaxFaults)
  /\ UNCHANGED <<fn, leads, activities, del>>

SpecStored == Init /\ [][NextStored]_vars

\* A plan request and the deletion of a lead, one after the other: neither
\* arrives while the other is in flight and no statement of the plan request
\* fails, so no DELETE runs inside a transaction a batch left open.
NoPlanInFlight == \A r \in PlanReqs : plan[r].pc \in {"idle", "done"}

NoDeleteInFlight == \A x \in DelReqs : del[x].pc \in {"idle", "done"}

NextDelete ==
  \/ /\ NoDeleteInFlight
     /\ PlanNext({"p1"}, {"d1", "d2"}, {[t |-> "other", v |-> 0]}, LiveInputs,
                 FALSE, 0, 0)
     /\ UNCHANGED <<fn, leads, activities, del>>
  \/ /\ NoPlanInFlight
     /\ DelNext(LeadIdInputs, MaxFaults)

SpecDelete == Init /\ [][NextDelete]_vars

\* The pure helpers of the plan request applied to inputs of their own.
program == <<apiKey, leads, deals, activities, rows, committed, inTx, queue,
             crashed, faults, calls, plan, upd, lst, del>>

StageInputs ==
  {Absent, "new", "New", "NEW", "qualified", "Qualified", "proposal sent",
   "Proposal Sent", "proposal_sent", "Proposal_Sent", "won", "Won", "lost",
   "Lost", "LOST", "negotiation", "Negotiation", "7"}

IntentInputs ==
  allowedIntents \cup
  {Absent, "First_Contact", "FIRST_CONTACT", "Deal_Recovery", "upsell",
   "Upsell", "7", "[object Object]"}

NormalizeCall(stage, originalIntent, hasAnyContact) ==
  /\ fn = noFn
  /\ fn' = [op |-> "normalize", stage |-> stage, intent |-> originalIntent,
            contact |-> hasAnyContact,
            out |-> normalizeIntentForStage(stage, originalIntent, hasAnyContact)]
  /\ UNCHANGED program

\* Candidates for the filter: every kind of offsetDays around the two
\* horizons, valid, invalid and missing channels, two spellings of intent.
BuildHorizons == {5, 7}

OffsetInputs ==
  {[t |-> "num", v |-> n] : n \in {-1, 0, 5, 6, 7, 8}} \cup
  {[t |-> "none", v |-> 0], [t |-> "str", v |-> 0]}

cNumberElem == Cand("number", "none", 0, Absent, Absent, Absent)

CandInputs ==
  {Cand("object", o.t, o.v, ch, it, "g") :
     o \in OffsetInputs, ch \in {"email", "fax", Absent},
     it \in {"First_Contact", "upsell"}}
  \cup {cNullElem, cNumberElem}

BuildInputs ==
  {[t |-> "list", v |-> <<c>>] : c \in CandInputs} \cup
  {[t |-> "list", v |-> <<c, d>>] :
     c \in CandInputs, d \in {cIntro, cNullElem, cNumberElem}} \cup
  {[t |-> "list", v |-> <<>>], [t |-> "unparseable"], [t |-> "nonlist"]}

\* The normalise-and-filter part of buildAndStoreSteps on its own.
BuildCall(modelSteps, stage, hasAnyContact, horizon, today) ==
  /\ fn = noFn
  /\ fn' = [op |-> "build", in |-> modelSteps, stage |-> stage,
            contact |-> hasAnyContact, horizon |-> horizon, today |-> today,
            out |-> buildSteps(modelSteps, "d1", stage, hasAnyContact, horizon,
                               today)]
  /\ UNCHANGED program

ScheduleAnchors ==
  {[day |-> d, hh |-> h] : d \in {AnchorDay, AnchorDay + 1}, h \in {0, 8, 9, 17, 23}}

\* The due date computation on its own.
ScheduleCall(today, off) ==
  /\ fn = noFn
  /\ fn' = [op |-> "schedule", today |-> today, off |-> off,
            out |-> dueDateOf(today, off)]
  /\ UNCHANGED program

NextPure ==
  \/ \E st \in StageInputs, it \in IntentInputs, c \in BOOLEAN :
       NormalizeCall(st, it, c)
  \/ \E ms \in BuildInputs, st \in {"New", "Lost"}, h \in BuildHorizons,
        today \in Anchors :
       BuildCall(ms, st, TRUE, h, today)
  \/ \E today \in ScheduleAnchors, off \in 0..7 : ScheduleCall(today, off)

SpecPure == Init /\ [][NextPure]_vars

\* One plan request for a deal that has reached any stage, spelled in any
\* way, fed by the stub sequence or by a generator asking for first contact.
InitStages ==
  /\ apiKey \in BOOLEAN
  /\ leads = InitLeads
  /\ deals \in {[InitDeals EXCEPT !["d1"].stage = st] : st \in StageInputs}
  /\ activities \in {InitActivities, InitActivities \cup {"d1"}}
  /\ rows = {}
  /\ committed = {}
  /\ inTx = FALSE
  /\ queue = <<>>
  /\ crashed = FALSE
  /\ faults = 0
  /\ calls = <<>>
  /\ plan = [r \in PlanReqs |-> idlePlan]
  /\ upd = [u \in UpdReqs |-> idleUpd]
  /\ lst = [g \in ListReqs |-> idleLst]
  /\ del = [x \in DelReqs |-> idleDel]
  /\ fn = noFn

StageOutputs ==
  {[t |-> "throw"], [t |-> "list", v |-> <<cIntro, cLate>>]}

NextStages ==
  /\ PlanNext({"p1"}, {"d1"}, {[t |-> "other", v |-> 0]}, StageOutputs, FALSE,
              MaxFaults, 0)
  /\ UNCHANGED <<fn, leads, activities, del>>

SpecStages == InitStages /\ [][NextStages]_vars

\* ================================================================ claims
idsOf(S) == {s.id : s \in S}

\* The ids createOutreachSteps call b gave its steps.
batchIds(b) == {<<b[1], b[2], i>> : i \in 1..calls[b].size}

callsOf(r) == {b \in DOMAIN calls : b[1] = r}

rowsOfReq(r) == {s \in rows \cup committed : s.id[1] = r}

\* The generator was unavailable or its answer unusable as a list.
genFailed(r) ==
  \/ ~apiKey /\ plan[r].phase # "none"
  \/ plan[r].gen.t \in {"throw", "unparseable", "falsy", "nonlist"}

\* C1: every stored outreach step has completedAt null if and only if its
\* status is pending, after any sequence of batch inserts and status updates.
C1_CompletedAtIffPending ==
  \A s \in rows \cup committed : (s.completedAt = NULL) <=> (s.status = "pending")

\* A step was marked done and then reset to pending, next to a skipped one.
C1_Witness ==
  /\ upd["u1"].pc = "done" /\ upd["u1"].code = 200
  /\ upd["u2"].pc = "done" /\ upd["u2"].code = 200
  /\ upd["u1"].status \in {"done", "skipped"}
  /\ upd["u2"].status = "pending" /\ upd["u2"].stepId = upd["u1"].stepId
  /\ \E s \in committed : s.id = upd["u2"].stepId /\ s.completedAt = NULL

\* C2: once a createOutreachSteps call with a failed insert has reported
\* its error, the store holds no step of that batch.
C2_FailedInsertLeavesNoStep ==
  \A b \in DOMAIN calls :
    calls[b].hasErrored /\ calls[b].cbs >= 1 =>
      batchIds(b) \cap idsOf(rows \cup committed) = {}

\* A batch of three whose other two inserts ran has reported its error.
C2_Witness ==
  \E b \in DOMAIN calls :
    /\ calls[b].hasErrored /\ calls[b].cbs >= 1
    /\ calls[b].size = 3 /\ calls[b].remaining = 1

\* C3: a plan request one of whose batch writes failed ends with an error
\* response and none of its steps stored.
C3_WriteFailureIsError ==
  \A r \in PlanReqs :
    (plan[r].pc = "done" /\ \E b \in callsOf(r) : calls[b].outcome = "err") =>
      plan[r].code = 500 /\ rowsOfReq(r) = {}

C5_ReturnsOwnBatchOnly ==
  \A r \in PlanReqs :
    (plan[r].pc = "done" /\ plan[r].code = 200) =>
      idsOf(plan[r].steps) = idsOf(rowsOfReq(r))

\* C6: for a deal in stage New, no API key and a horizon of at least 7, a
\* successful plan request has persisted exactly the three stub steps, due
\* on the anchor day + 0, 3 and 7 at 09:00, all pending.
stubRow(r, dealId, i, off, channel, intent, goal) ==
  [id |-> <<r, 1, i>>, dealId |-> dealId,
   dueDate |-> [day |-> AnchorDay + off, hh |-> 9],
   channel |-> channel, intent |-> intent, goal |-> goal,
   status |-> "pending", completedAt |-> NULL, createdAt |-> 0]

C6_Case(r) ==
  /\ plan[r].pc = "done" /\ plan[r].code = 200
  /\ ~apiKey
  /\ toLowerCase(plan[r].stage) = "new"
  /\ plan[r].horizon >= 7

C6_NewDealStubPlan ==
  \A r \in PlanReqs :
    C6_Case(r) =>
      rowsOfReq(r) =
        {stubRow(r, plan[r].dealId, 1, 0, "email", "first_contact", "intro"),
         stubRow(r, plan[r].dealId, 2, 3, "whatsapp", "nurture_checkin", "checkin"),
         stubRow(r, plan[r].dealId, 3, 7, "call_script", "post_call_summary", "recap")}

C6_Witness ==
  /\ C6_Case("p1") /\ plan["p1"].horizon = 7
  /\ C6_Case("p2") /\ plan["p2"].horizon = defaultHorizon

\* C7: when the generator's list holds at least one valid candidate, the
\* request persists one step per valid candidate and nothing else, without
\* the fallback and without an error.
isValidCandidate(c, r) ==
  /\ c.kind = "object"
  /\ stepAccepted(normalizeStep(c, plan[r].stage, plan[r].contact), plan[r].horizon)

validCount(r) ==
  Cardinality({i \in 1..Len(plan[r].gen.v) : isValidCandidate(plan[r].gen.v[i], r)})

C7_ValidCandidatesPersisted ==
  \A r \in PlanReqs :
    (plan[r].pc = "done" /\ plan[r].gen.t = "list" /\ validCount(r) >= 1) =>
      /\ plan[r].code = 200
      /\ plan[r].phase = "gen"
      /\ Cardinality(rowsOfReq(r)) = validCount(r)

\* C8: a listSteps read on the shared connection never returns some but
\* not all of the steps of a batch, nor a step of a batch whose ROLLBACK
\* has since run.
C8_ReaderSeesWholeCommittedBatches ==
  \A g \in ListReqs :
    lst[g].code = 200 =>
      \A b \in DOMAIN calls :
        LET seen == batchIds(b) \cap idsOf(lst[g].steps)
        IN  /\ seen = {} \/ seen = batchIds(b)
            /\ (calls[b].hasErrored /\ calls[b].cbs >= 1) => seen = {}

\* C9: when two overlapping plan requests for the same deal both report
\* success, the complete batch of each is stored for the deal.
C9_BothSucceeded ==
  /\ plan["p1"].pc = "done" /\ plan["p1"].code = 200
  /\ plan["p2"].pc = "done" /\ plan["p2"].code = 200
  /\ plan["p1"].dealId = plan["p2"].dealId
  /\ plan["p2"].overlapped

C9_OverlappingBatchesBothStored ==
  C9_BothSucceeded =>
    \A r \in PlanReqs :
      /\ \E b \in callsOf(r) : calls[b].outcome = "ok"
      /\ \A b \in callsOf(r) :
           calls[b].outcome = "ok" =>
             batchIds(b) \subseteq
               idsOf(stepsForDeal(rows \cap committed, plan[r].dealId))

C9_Witness ==
  /\ C9_BothSucceeded
  /\ Cardinality(stepsForDeal(committed, plan["p1"].dealId)) >= 4

\* C10: a status update whose step id is not stored is answered 404, not
\* 200 and not an error of its own (500 only when the UPDATE statement
\* itself failed), and leaves every stored step unchanged.
C10_UnknownIdNotFound ==
  [][\A u \in UpdReqs :
       (/\ upd[u].pc = "wait" /\ upd'[u].pc = "done"
        /\ upd[u].stepId \notin idsOf(rows)) =>
         /\ rows' = rows /\ committed' = committed
         /\ upd'[u].code = IF faults' = faults THEN 404 ELSE 500]_vars

C10_Witness ==
  \E u \in UpdReqs :
    /\ upd[u].pc = "done" /\ upd[u].code = 404
    /\ upd[u].stepId = UnknownId
    /\ rows # {}

\* C11: a successful update to done of a stored step leaves that step
\* done with a non-null completedAt, whether the step was pending (first
\* application) or already done (second application), and leaves its other
\* fields and every other step as they were.
otherFields(s) == [s EXCEPT !.status = "any", !.completedAt = "any"]

C11_Applies(u) ==
  /\ upd[u].pc = "wait" /\ upd'[u].pc = "done"
  /\ upd'[u].code = 200 /\ upd[u].status = "done"

C11_DoneIsIdempotent ==
  [][\A u \in UpdReqs :
       C11_Applies(u) =>
         /\ idsOf(rows') = idsOf(rows)
         /\ upd[u].stepId \in idsOf(rows)
         /\ \A s \in rows : \E t \in rows' :
              /\ t.id = s.id
              /\ IF s.id = upd[u].stepId
                   THEN /\ s.status \in {"pending", "done"} =>
                             t.status = "done" /\ t.completedAt # NULL
                        /\ otherFields(t) = otherFields(s)
                   ELSE t = s]_vars

\* done was applied to a pending step and then once more to the same step,
\* beside two other steps of the deal.
C11_Witness ==
  /\ upd["u1"].pc = "done" /\ upd["u1"].code = 200 /\ upd["u1"].status = "done"
  /\ upd["u2"].pc = "done" /\ upd["u2"].code = 200 /\ upd["u2"].status = "done"
  /\ upd["u1"].stepId = upd["u2"].stepId
  /\ \E s \in committed :
       s.id = upd["u1"].stepId /\ s.status = "done" /\ s.completedAt # NULL
  /\ Cardinality({s \in committed : s.status = "pending"}) = 2

\* C12: for every stage, every requested intent (absent, unknown and
\* non-string values included) and either contact flag,
\* normalizeIntentForStage returns one of the ten intents.
C12_NormalizeInEnumeration ==
  fn.op = "normalize" => fn.out \in allowedIntents

\* An unknown intent, given as a non-string value, was normalised.
C12_Witness ==
  /\ fn.op = "normalize" /\ fn.intent = "[object Object]" /\ fn.stage = "7"
  /\ fn.out = "nurture_checkin"
  /\ Cardinality(allowedIntents) = 10

\* C13: requested first_contact is mapped by stage: new keeps it, qualified
\* gives nurture_checkin, proposal sent proposal_followup, won
\* post_call_summary, lost deal_recovery, whatever the contact flag; any
\* other stage with the flag set gives nurture_checkin; letter case and
\* space versus underscore in the stage label make no difference.
stageKey(stage) ==
  CASE stage \in {"new", "New", "NEW"} -> "new"
    [] stage \in {"qualified", "Qualified"} -> "qualified"
    [] stage \in {"proposal sent", "Proposal Sent", "proposal_sent",
                  "Proposal_Sent"} -> "proposal sent"
    [] stage \in {"won", "Won"} -> "won"
    [] stage \in {"lost", "Lost", "LOST"} -> "lost"
    [] OTHER -> "other"

C13_FirstContactByStage ==
  (fn.op = "normalize" /\ fn.intent = "first_contact") =>
    CASE stageKey(fn.stage) = "new" -> fn.out = "first_contact"
      [] stageKey(fn.stage) = "qualified" -> fn.out = "nurture_checkin"
      [] stageKey(fn.stage) = "proposal sent" -> fn.out = "proposal_followup"
      [] stageKey(fn.stage) = "won" -> fn.out = "post_call_summary"
      [] stageKey(fn.stage) = "lost" -> fn.out = "deal_recovery"
      [] OTHER -> fn.contact => fn.out = "nurture_checkin"

C13_Witness ==
  /\ fn.op = "normalize" /\ fn.intent = "first_contact"
  /\ fn.stage = "Proposal_Sent" /\ ~fn.contact
  /\ fn.out = "proposal_followup"

\* C14 as stated: a requested intent other than first_contact is returned
\* unchanged when it is one of the ten intents, and nurture_checkin is
\* returned in every other case.
C14_PassThroughOnlyMembers ==
  (fn.op = "normalize" /\ fn.intent # "first_contact") =>
    fn.out = IF fn.intent \in allowedIntents THEN fn.intent ELSE "nurture_checkin"

\* C14 (amended): the requested intent is compared in lower case.  When
\* its lower-case form is not first_contact, the result is that lower-case
\* form if it is one of the ten intents (so a member is returned
\* unchanged) and nurture_checkin in every other case.
C14_PassThroughLowerCased ==
  (fn.op = "normalize"
     /\ (fn.intent = Absent \/ toLowerCase(fn.intent) # "first_contact")) =>
    fn.out = IF fn.intent # Absent /\ toLowerCase(fn.intent) \in allowedIntents
               THEN toLowerCase(fn.intent)
               ELSE "nurture_checkin"

C14_Witness ==
  /\ fn.op = "normalize" /\ fn.intent = "Deal_Recovery"
  /\ fn.out = "deal_recovery"

\* C15: the filter excludes every candidate whose offsetDays is missing,
\* not a number, below 0 or above the horizon, and keeps every candidate
\* with a valid channel whose offsetDays is exactly 0 or exactly the
\* horizon.
offsetOutside(c, horizon) ==
  c.kind # "object" \/ c.offT # "num" \/ c.off < 0 \/ c.off > horizon

onBoundary(c, horizon) ==
  /\ c.kind = "object" /\ c.offT = "num" /\ c.off \in {0, horizon}
  /\ c.channel \in allowedChannels

C15_Case ==
  fn.op = "build" /\ fn.in.t = "list" /\ ~fn.out.threw

C15_OffsetWindow ==
  C15_Case =>
    LET cands == fn.in.v
        idx == 1..Len(cands)
        excluded == {i \in idx : offsetOutside(cands[i], fn.horizon)}
        boundary == {i \in idx : onBoundary(cands[i], fn.horizon)}
    IN  /\ Len(fn.out.steps) <= Len(cands) - Cardinality(excluded)
        /\ Len(fn.out.steps) >= Cardinality(boundary)
        /\ \A k \in 1..Len(fn.out.steps) :
             \E i \in idx \ excluded :
               fn.out.steps[k].dueDate.day = fn.today.day + cands[i].off

\* A candidate at offset horizonDays was kept beside one at offset 0.
C15_Witness ==
  /\ C15_Case /\ fn.horizon = 5 /\ Len(fn.in.v) = 2
  /\ fn.in.v[1].offT = "num" /\ fn.in.v[1].off = 5
  /\ Len(fn.out.steps) = 2
  /\ fn.out.steps[1].dueDate.day = AnchorDay + 5

\* C16: normalising and filtering a generator's steps value raises no
\* error, whatever the value: a list with null or non-object elements, or
\* a value that is not a list.
C16_ValidationNeverThrows ==
  fn.op = "build" => ~fn.out.threw

\* C17: the due date is the anchor's calendar day plus offsetDays days at
\* 09:00 local time, the same for every anchor time of that day.
C17_DueDateAtNine ==
  fn.op = "schedule" =>
    /\ fn.out = [day |-> fn.today.day + fn.off, hh |-> 9]
    /\ \A a \in ScheduleAnchors :
         a.day = fn.today.day => dueDateOf(a, fn.off) = fn.out

C17_Witness ==
  /\ fn.op = "schedule" /\ fn.today = [day |-> AnchorDay, hh |-> 17]
  /\ fn.off = 3
  /\ fn.out = [day |-> AnchorDay + 3, hh |-> 9]

\* C18: when the final accepted list of a plan request is empty, the
\* request makes no batch write, stores nothing and answers 200 with an
\* empty list.  The final list is the fallback's whenever the generator's
\* is empty, so the case needs an empty fallback list: a request answered
\* by the empty-list branch of the handler.
C18_EmptyFinalList(r) ==
  /\ plan[r].pc = "done" /\ plan[r].phase \in {"stub", "tryFallback"}
  /\ Len(buildSteps([t |-> "list", v |-> stub], plan[r].dealId, plan[r].stage,
                    plan[r].contact, plan[r].horizon,
                    [day |-> AnchorDay, hh |-> 8]).steps) = 0

C18_EmptyPlanIsSuccess ==
  \A r \in PlanReqs :
    C18_EmptyFinalList(r) =>
      /\ plan[r].code = 200 /\ plan[r].steps = NoSteps
      /\ plan[r].nb = IF plan[r].phase = "stub" THEN 0 ELSE plan[r].nb
      /\ rowsOfReq(r) = {}

\* The case of C18 does not arise: no request is answered with an empty
\* final list, because the fallback's day-0 step passes the filter for
\* every stage, contact flag and horizon.
C18_FallbackNeverEmpty ==
  /\ \A r \in PlanReqs : ~C18_EmptyFinalList(r)
  /\ fn.op = "normalize" =>
       \A h \in {1, 5, 7, defaultHorizon} :
         Len(buildSteps([t |-> "list", v |-> stub], "d1", fn.stage, fn.contact,
                        h, [day |-> AnchorDay, hh |-> 8]).steps) >= 1

\* C19: a listing returns exactly the steps of the requested deal that
\* the table holds when the SELECT runs, each once, in non-decreasing
\* dueDate order, steps of equal dueDate in non-decreasing createdAt order.
C19_Listed(g) ==
  lst[g].pc = "wait" /\ lst'[g].pc = "done" /\ lst'[g].code = 200

C19_ListFilteredAndOrdered ==
  [][\A g \in ListReqs :
       C19_Listed(g) =>
         LET l == lst'[g].list
         IN  /\ {l[i] : i \in 1..Len(l)} = {s \in rows : s.dealId = lst[g].dealId}
             /\ \A i, j \in 1..Len(l) : i # j => l[i] # l[j]
             /\ \A i, j \in 1..Len(l) :
                  i < j =>
                    \/ l[i].dueDate.day < l[j].dueDate.day
                    \/ /\ l[i].dueDate = l[j].dueDate
                       /\ l[i].createdAt <= l[j].createdAt]_vars

\* Two batches of the deal were listed after the clock advanced between
\* them: steps due the same day are ordered by createdAt.
C19_Witness ==
  \E g \in ListReqs :
    /\ lst[g].pc = "done" /\ lst[g].code = 200 /\ Len(lst[g].list) >= 4
    /\ \E i \in 1..(Len(lst[g].list) - 1) :
         /\ lst[g].list[i].dueDate = lst[g].list[i + 1].dueDate
         /\ lst[g].list[i].createdAt < lst[g].list[i + 1].createdAt

\* C20: every plan request that arrived is answered in the end, and an
\* answered request is not answered again, provided the deal lookup, the
\* generator and the store each answer in the end.
C20_ExactlyOneResponse ==
  /\ \A r \in PlanReqs : (plan[r].pc # "idle") ~> (plan[r].pc = "done")
  /\ [][\A r \in PlanReqs : plan[r].pc = "done" => plan'[r] = plan[r]]_vars

\* C21: once the deletion of a lead has been answered with success, no deal
\* of that lead, no activity of those deals and no outreach step of those
\* deals remains.
C21_DeleteLeavesNoRelatedData ==
  \A x \in DelReqs :
    (del[x].pc = "done" /\ del[x].code = 200) =>
      /\ dealsOfLead(deals, del[x].leadId) = {}
      /\ activities \cap del[x].dealIds = {}
      /\ \A d \in del[x].dealIds : stepsForDeal(rows, d) = {}

\* C22: a plan request runs the generator's candidates or the fallback
\* through one validation and one batch write.  Once a batch write of the
\* request has settled (Persisted or Failed) the request starts no other
\* batch write, the fallback is entered at most once, and an answered
\* request does nothing more.
C22_PlanPaths ==
  /\ [](\A r \in PlanReqs :
         \A b \in callsOf(r), c \in callsOf(r) :
           calls[b].outcome # "open" => c[2] <= b[2])
  /\ [][\A r \in PlanReqs :
         /\ plan[r].phase = "tryFallback" => plan'[r].phase = "tryFallback"
         /\ plan[r].pc = "done" => plan'[r] = plan[r]]_vars

\* C23: whatever the generator answered and whatever status value a client
\* sent, every stored step has a channel and an intent of the enumerations,
\* a status in {pending, done, skipped} and a due date.
C23_StoredStepsWellFormed ==
  \A s \in rows \cup committed :
    /\ s.channel \in allowedChannels
    /\ s.intent \in allowedIntents
    /\ s.status \in allowedStatuses
    /\ s.dueDate \in [day : AnchorDay..(AnchorDay + defaultHorizon), hh : {9}]

\* The generator offered a step on an unknown channel, a client asked for an
\* unknown status and was refused, and steps are stored and updated.
C23_Witness ==
  /\ \E r \in PlanReqs :
       /\ plan[r].gen.t = "list"
       /\ \E i \in 1..Len(plan[r].gen.v) : plan[r].gen.v[i].channel = "fax"
       /\ plan[r].pc = "done" /\ plan[r].code = 200
  /\ \E u \in UpdReqs : upd[u].status = "archived" /\ upd[u].code = 400
  /\ \E s \in committed : s.status = "skipped"

\* C24: a status update leaves the set of steps as it was, changes nothing
\* but status and completedAt of the step it names and nothing at all of any
\* other step; and no step of any request removes a committed step or
\* changes another field of it.
C24_UpdateFrame ==
  [][/\ \A u \in UpdReqs :
          (upd[u].pc = "wait" /\ upd'[u].pc = "done") =>
            /\ idsOf(rows') = idsOf(rows)
            /\ \A s \in rows : \E t \in rows' :
                 /\ t.id = s.id
                 /\ IF s.id = upd[u].stepId
                      THEN otherFields(t) = otherFields(s)
                      ELSE t = s
     /\ \A s \in committed : \E t \in committed' :
          t.id = s.id /\ otherFields(t) = otherFields(s)]_vars

\* A step was set to skipped beside two untouched steps of its batch, after
\* an earlier batch of the request had failed and been rolled back.
C24_Witness ==
  /\ \E u \in UpdReqs :
       /\ upd[u].pc = "done" /\ upd[u].code = 200 /\ upd[u].status = "skipped"
       /\ \E s \in committed :
            s.id = upd[u].stepId /\ s.status = "skipped" /\ s.completedAt # NULL
  /\ Cardinality({s \in committed : s.status = "pending"}) = 2
  /\ \E b \in DOMAIN calls : calls[b].hasErrored /\ calls[b].cbs >= 1

\* C25: no step with intent first_contact is ever stored, from the
\* generator's candidates or from the fallback sequence, for a deal whose
\* stage, as the storing request found it, is qualified, proposal sent, won
\* or lost.
C25_NoFirstContactPastNew ==
  \A s \in rows \cup committed :
    \A r \in PlanReqs :
      (s.id[1] = r
         /\ plan[r].stage = deals[s.dealId].stage
         /\ stageKey(plan[r].stage) \in
              {"qualified", "proposal sent", "won", "lost"}) =>
        s.intent # "first_contact"

\* The fallback sequence was stored for a deal at stage Proposal_Sent that
\* was never contacted: its day-0 step carries proposal_followup.
C25_Witness ==
  /\ deals["d1"].stage = "Proposal_Sent" /\ "d1" \notin activities
  /\ \E r \in PlanReqs :
       /\ plan[r].pc = "done" /\ plan[r].code = 200
       /\ plan[r].phase \in {"stub", "catchFallback"}
       /\ \E s \in committed :
            /\ s.id[1] = r /\ s.dealId = "d1"
            /\ s.intent = "proposal_followup" /\ s.channel = "email"
            /\ s.dueDate.day = AnchorDay

\* C26: the committed steps of one plan request all come from one batch:
\* never from the generator's batch and from a fallback batch as well.
C26_AtMostOneBatchStored ==
  \A s \in committed, t \in committed :
    s.id[1] = t.id[1] => s.id[2] = t.id[2]

\* C27: when the batch writes of two plan requests overlapped on the
\* connection, then once the connection is idle every batch is stored whole
\* or not at all, a batch reported as succeeded is stored whole and a batch
\* reported as failed has no step stored (stated for the runs in which no
\* COMMIT statement itself failed: only INSERTs did).
C27_OverlappingBatchesAtomic ==
  (/\ plan["p2"].overlapped
   /\ callsOf("p1") # {} /\ callsOf("p2") # {}
   /\ (\A b \in DOMAIN calls : calls[b].outcome = "err" => calls[b].hasErrored)
   /\ queue = <<>> /\ ~crashed) =>
    \A b \in DOMAIN calls :
      LET kept == batchIds(b) \cap idsOf(rows \cup committed)
      IN  /\ kept = {} \/ kept = batchIds(b)
          /\ calls[b].outcome = "ok" => batchIds(b) \subseteq idsOf(committed)
          /\ calls[b].outcome = "err" => kept = {}

\* C28: a status update of a committed step that was answered with success
\* stays applied until the next status update runs: while the process
\* runs, no step of another request changes or removes the step it named.
C28_UpdateStaysApplied ==
  [][\A u \in UpdReqs :
       (/\ upd[u].pc = "done" /\ upd[u].code = 200
        /\ upd[u].stepId \in idsOf(committed)
        /\ ~HeadIs("update") /\ ~crashed') =>
         \A s \in rows : s.id = upd[u].stepId => s \in rows']_vars

\* C29: every plan request answered with success has a step of its own in
\* the store: no request answers 200 having stored nothing.
C29_SuccessMeansStored ==
  \A r \in PlanReqs :
    (plan[r].pc = "done" /\ plan[r].code = 200) =>
      \E s \in committed : s.id[1] = r

\* C30: createOutreachSteps calls its completion callback exactly once per
\* call: never twice, and once every statement of the call has run it has
\* been called.
C30_CallbackExactlyOnce ==
  \A b \in DOMAIN calls :
    /\ calls[b].cbs <= 1
    /\ (queue = <<>> /\ ~crashed) => calls[b].cbs = 1

====
